---- MODULE Spec2Model ----
(***************************************************************************)
(* Model of src/app.py, the Streamlit page "Feature-Specific Sentiment     *)
(* Analysis Tool".  The page is a script that the framework re-runs from   *)
(* top to bottom after every widget interaction.  One run is modelled as   *)
(* the steps of the script in source order (pc), and the interactions of   *)
(* the user with the rendered widgets are the actions that start a run.    *)
(*                                                                         *)
(* Floats are modelled as exact rationals plus NaN and +/-inf, with the    *)
(* IEEE rules for 0/0, x/0 and comparisons with NaN.                       *)
(***************************************************************************)
EXTENDS Integers, Sequences, FiniteSets

\* ------------------------------------------------------------------ bounds

\* Largest result table the analyzer returns in the model.
MaxRows == 3

\* Number of distinct CSV files the user can upload.
NumUploads == 2

\* ------------------------------------------------------- program constants

DEFAULT_CSV == "data/processed/noom_google_clean.csv"

TEXT_COLUMN == "cleaned_content"

\* ------------------------------------------------------------ input domains

\* Feature buckets and labels the external analyzer may emit.  The label
\* NEUTRAL stands for any label other than POSITIVE and NEGATIVE.
Buckets == {"price", "support", "ui"}

Labels == {"NEGATIVE", "NEUTRAL", "POSITIVE"}

\* Confidence in tenths; it is read by the histogram only.
Confidences == {9}

\* The order pandas sorts the group keys in (lexicographic).
BucketOrder == <<"price", "support", "ui">>

LabelOrder == <<"NEGATIVE", "NEUTRAL", "POSITIVE">>

ResultRows == [bucket : Buckets, label : Labels, confidence : Confidences]

ResultTables == UNION {[1..n -> ResultRows] : n \in 0..MaxRows}

UploadFiles == 1..NumUploads

\* ------------------------------------------------------------------- floats

RECURSIVE GCD(_, _)
GCD(a, b) == IF b = 0 THEN a ELSE GCD(b, a % b)

Abs(x) == IF x < 0 THEN -x ELSE x

NaN == [kind |-> "nan", num |-> 0, den |-> 0]

Inf(sign) == [kind |-> "inf", num |-> sign, den |-> 0]

\* The finite value n/d, d > 0, in lowest terms.
Rat(n, d) ==
    LET g == GCD(Abs(n), d)
    IN  [kind |-> "num", num |-> n \div g, den |-> d \div g]

IsNaN(x) == x.kind = "nan"

\* Mutant of TrueDiv: a zero divisor is guarded and yields 0.
TrueDivGuarded(n, t) ==
    IF t # 0 THEN Rat(n, t) ELSE Rat(0, 1)

\* Series / Series (or scalar / Series) true division of integer counts.
TrueDiv(n, t) ==
    IF t # 0 THEN Rat(n, t)
    ELSE IF n = 0 THEN NaN
    ELSE Inf(IF n > 0 THEN 1 ELSE -1)

FloatAdd(a, b) ==
    IF IsNaN(a) \/ IsNaN(b) THEN NaN
    ELSE IF a.kind = "inf" /\ b.kind = "inf"
         THEN IF a.num = b.num THEN a ELSE NaN
    ELSE IF a.kind = "inf" THEN a
    ELSE IF b.kind = "inf" THEN b
    ELSE Rat(a.num * b.den + b.num * a.den, a.den * b.den)

FloatNeg(a) ==
    IF IsNaN(a) THEN NaN ELSE [a EXCEPT !.num = -a.num]

FloatSub(a, b) == FloatAdd(a, FloatNeg(b))

\* a < b as IEEE compares: FALSE when either side is NaN.
FloatLT(a, b) ==
    IF IsNaN(a) \/ IsNaN(b) THEN FALSE
    ELSE IF a.kind = "inf" THEN a.num < 0 /\ ~(b.kind = "inf" /\ b.num < 0)
    ELSE IF b.kind = "inf" THEN b.num > 0
    ELSE a.num * b.den < b.num * a.den

FloatLE(a, b) ==
    IF IsNaN(a) \/ IsNaN(b) THEN FALSE ELSE ~FloatLT(b, a)

One == Rat(1, 1)

MinusOne == Rat(-1, 1)

\* ----------------------------------------------------------------- helpers

Range(s) == {s[i] : i \in DOMAIN s}

Count(s, e) == Cardinality({i \in DOMAIN s : s[i] = e})

\* All orderings of the elements of a sequence without repetitions.
Orderings(s) ==
    {p \in [DOMAIN s -> Range(s)] : \A i, j \in DOMAIN s : i # j => p[i] # p[j]}

\* ------------------------------------------------------ summary computation

\* Mutant of ValueCounts: marks the pairs that occur instead of counting rows.
ValueCountsPresence(rows) ==
    [k \in {<<rows[i].bucket, rows[i].label>> : i \in DOMAIN rows} |-> 1]

\* result_df.groupby('bucket')['label'].value_counts(): the number of rows of
\* every (bucket, label) pair that occurs, as a function on those pairs.
RECURSIVE ValueCounts(_)
ValueCounts(rows) ==
    IF rows = <<>> THEN <<>>
    ELSE LET k    == <<Head(rows).bucket, Head(rows).label>>
             rest == ValueCounts(Tail(rows))
         IN  IF k \in DOMAIN rest
             THEN [rest EXCEPT ![k] = @ + 1]
             ELSE [x \in DOMAIN rest \cup {k} |-> IF x = k THEN 1 ELSE rest[x]]

\* .unstack(fill_value=...): the inner level (label) becomes the columns, the
\* outer level (bucket) stays the index, both in sorted order; a pair without
\* a count gets fill_value.
Unstack(vc, fill_value) ==
    LET bs == {k[1] : k \in DOMAIN vc}
        ls == {k[2] : k \in DOMAIN vc}
    IN  [index   |-> SelectSeq(BucketOrder, LAMBDA b : b \in bs),
         columns |-> SelectSeq(LabelOrder, LAMBDA l : l \in ls),
         counts  |-> [b \in bs |-> [l \in ls |->
                        IF <<b, l>> \in DOMAIN vc THEN vc[<<b, l>>] ELSE fill_value]],
         derived |-> <<>>]

\* Line 80: the pivot of bucket x label counts.
Pivot(rows) == Unstack(ValueCounts(rows), 0)

\* sentiment_summary.get(key, default): the column as a Series when it exists,
\* otherwise the scalar default (broadcast over the index by the arithmetic).
Get(summary, key, default) ==
    [b \in Range(summary.index) |->
        IF key \in Range(summary.columns) THEN summary.counts[b][key] ELSE default]

\* Mutant of Total: the row sum over every label column.
TotalOverAllLabels(summary) ==
    [b \in Range(summary.index) |->
        Get(summary, "POSITIVE", 0)[b] + Get(summary, "NEGATIVE", 0)[b]
            + Get(summary, "NEUTRAL", 0)[b]]

\* Line 86: total = POSITIVE + NEGATIVE, per bucket.
Total(summary) ==
    [b \in Range(summary.index) |->
        Get(summary, "POSITIVE", 0)[b] + Get(summary, "NEGATIVE", 0)[b]]

\* Lines 87 and 88: the column `key` (or 0) divided by total, per bucket.
Rate(summary, key, total) ==
    [b \in Range(summary.index) |-> TrueDiv(Get(summary, key, 0)[b], total[b])]

\* Line 89: sentiment_score = positive_rate - negative_rate.
SentimentScore(positive_rate, negative_rate) ==
    FloatSub(positive_rate, negative_rate)

\* Lines 86-89: the summary with its four derived columns.
WithScores(summary) ==
    LET total         == Total(summary)
        positive_rate == Rate(summary, "POSITIVE", total)
        negative_rate == Rate(summary, "NEGATIVE", total)
    IN  [summary EXCEPT
            !.columns = @ \o <<"total", "positive_rate", "negative_rate",
                               "sentiment_score">>,
            !.derived = [b \in Range(summary.index) |->
                [total           |-> total[b],
                 positive_rate   |-> positive_rate[b],
                 negative_rate   |-> negative_rate[b],
                 sentiment_score |->
                     SentimentScore(positive_rate[b], negative_rate[b])]]]

\* Insertion of b into the ascending sequence s, behind its equals.
RECURSIVE Insert(_, _, _)
Insert(s, b, key) ==
    IF s = <<>> THEN <<b>>
    ELSE IF FloatLT(key[b], key[Head(s)]) THEN <<b>> \o s
    ELSE <<Head(s)>> \o Insert(Tail(s), b, key)

RECURSIVE InsertionSort(_, _)
InsertionSort(s, key) ==
    IF s = <<>> THEN <<>>
    ELSE Insert(InsertionSort(SubSeq(s, 1, Len(s) - 1), key), s[Len(s)], key)

\* Line 90: sort_values(by='sentiment_score', ascending=True).  The rows with
\* a NaN key are set apart and appended (na_position='last'); the others are
\* sorted by key.  The default sort kind is not stable, so rows with equal
\* keys may come out in any order: every outcome is the stable sort of some
\* ordering `presented` of the rows that have a key.
HasKey(summary) ==
    SelectSeq(summary.index, LAMBDA b : ~IsNaN(summary.derived[b].sentiment_score))

NoKey(summary) ==
    SelectSeq(summary.index, LAMBDA b : IsNaN(summary.derived[b].sentiment_score))

SortValues(summary, presented) ==
    LET key == [b \in Range(summary.index) |-> summary.derived[b].sentiment_score]
    IN  [summary EXCEPT !.index = InsertionSort(presented, key) \o NoKey(summary)]

\* -------------------------------------------------------------------- state

VARIABLES
    uploaded_file,      \* the file_uploader's value: 0 (None) or an uploaded file
    default_exists,     \* whether DEFAULT_CSV exists on disk
    clicked,            \* the button whose press started the current run
    pc,                 \* position of the current run in the script
    df,                 \* the loaded reviews table
    result_df,          \* what analyze_sentiment returned
    sentiment_summary,  \* the summary table
    out,                \* what the current run has rendered or called, in order
    analyzer_calls,     \* the arguments of this run's analyze_sentiment calls
    fault               \* the run ended in an uncaught exception

vars == <<uploaded_file, default_exists, clicked, pc, df, result_df,
          sentiment_summary, out, analyzer_calls, fault>>

\* df = None, and df loaded from the upload or from the default path.
NoTable == [source |-> "none", file |-> 0]

UploadedTable(f) == [source |-> "uploaded", file |-> f]

DefaultTable == [source |-> "default", file |-> 0]

\* result_df before line 69 binds it, None, and a table.
Unbound == [kind |-> "unbound", rows |-> <<>>]

ResultNone == [kind |-> "none", rows |-> <<>>]

ResultTable(rows) == [kind |-> "table", rows |-> rows]

NoSummary == [index |-> <<>>, columns |-> <<>>, counts |-> <<>>, derived |-> <<>>]

\* Lines 9-29: what every run renders before the load.
PageHeader == <<"set_page_config", "title", "write_intro", "file_uploader">>

\* st.button(label): rendered, and True only in the run its press started.
ButtonPressed(label) == clicked = label

\* The framework re-runs the script from the top: every script variable is
\* rebound, only the widget state (uploaded_file) survives.
StartRun(trigger) ==
    /\ clicked' = trigger
    /\ pc' = "load"
    /\ df' = NoTable
    /\ result_df' = Unbound
    /\ sentiment_summary' = NoSummary
    /\ out' = PageHeader
    /\ analyzer_calls' = <<>>
    /\ fault' = FALSE

\* The run is over: the page waits for the next interaction.
Idle == pc = "idle"

Init ==
    /\ uploaded_file = 0
    /\ default_exists \in BOOLEAN
    /\ clicked = "none"
    /\ pc = "load"
    /\ df = NoTable
    /\ result_df = Unbound
    /\ sentiment_summary = NoSummary
    /\ out = PageHeader
    /\ analyzer_calls = <<>>
    /\ fault = FALSE

\* ------------------------------------------------------- user interactions

\* The user puts a file into the uploader (line 27).
UploadFile(f) ==
    /\ Idle
    /\ f # uploaded_file
    /\ uploaded_file' = f
    /\ StartRun("none")
    /\ UNCHANGED default_exists

\* The user removes the uploaded file.
ClearUpload ==
    /\ Idle
    /\ uploaded_file # 0
    /\ uploaded_file' = 0
    /\ StartRun("none")
    /\ UNCHANGED default_exists

\* The user presses a button the last run rendered.
ClickUseDefault ==
    /\ Idle
    /\ "button_use_default" \in Range(out)
    /\ StartRun("use_default")
    /\ UNCHANGED <<uploaded_file, default_exists>>

ClickRunAnalysis ==
    /\ Idle
    /\ "button_run_analysis" \in Range(out)
    /\ StartRun("run_analysis")
    /\ UNCHANGED <<uploaded_file, default_exists>>

\* The default CSV is created or removed between runs.
CreateDefaultCsv ==
    /\ Idle
    /\ ~default_exists
    /\ default_exists' = TRUE
    /\ UNCHANGED <<uploaded_file, clicked, pc, df, result_df, sentiment_summary,
                   out, analyzer_calls, fault>>

DeleteDefaultCsv ==
    /\ Idle
    /\ default_exists
    /\ default_exists' = FALSE
    /\ UNCHANGED <<uploaded_file, clicked, pc, df, result_df, sentiment_summary,
                   out, analyzer_calls, fault>>

\* ------------------------------------------------------------ script steps

\* Mutant of ReadDefaultCsv: the read without the try/except.
ReadDefaultCsvUncaught ==
    IF default_exists
    THEN [df |-> DefaultTable,
          out |-> <<"read_csv_default", "write_loaded_default">>, fault |-> FALSE]
    ELSE [df |-> NoTable,
          out |-> <<"read_csv_default", "FileNotFoundError">>, fault |-> TRUE]

\* pd.read_csv(DEFAULT_CSV) inside try/except FileNotFoundError (lines 36-41).
ReadDefaultCsv ==
    IF default_exists
    THEN [df |-> DefaultTable,
          out |-> <<"read_csv_default", "write_loaded_default">>, fault |-> FALSE]
    ELSE [df |-> NoTable,
          out |-> <<"read_csv_default", "FileNotFoundError",
                    "error_default_not_found">>,
          fault |-> FALSE]

\* Mutant of LoadBranch: the default button is tested before the upload.
LoadBranchDefaultFirst ==
    IF ButtonPressed("use_default")
    THEN [ReadDefaultCsv EXCEPT !.out = <<"button_use_default">> \o @]
    ELSE IF uploaded_file # 0
    THEN [df |-> UploadedTable(uploaded_file),
          out |-> <<"button_use_default", "read_csv_uploaded",
                    "write_loaded_uploaded">>,
          fault |-> FALSE]
    ELSE [df |-> NoTable,
          out |-> <<"button_use_default", "info_please_upload">>, fault |-> FALSE]

\* Lines 32-44: the load, uploaded file > default file.
LoadBranch ==
    IF uploaded_file # 0
    THEN [df |-> UploadedTable(uploaded_file),
          out |-> <<"read_csv_uploaded", "write_loaded_uploaded">>, fault |-> FALSE]
    ELSE IF ButtonPressed("use_default")
    THEN [ReadDefaultCsv EXCEPT !.out = <<"button_use_default">> \o @]
    ELSE [df |-> NoTable,
          out |-> <<"button_use_default", "info_please_upload">>, fault |-> FALSE]

LoadCsv ==
    /\ pc = "load"
    /\ df' = LoadBranch.df
    /\ out' = out \o LoadBranch.out
    /\ fault' = LoadBranch.fault
    /\ pc' = IF LoadBranch.fault THEN "idle" ELSE "gate"
    /\ UNCHANGED <<uploaded_file, default_exists, clicked, result_df,
                   sentiment_summary, analyzer_calls>>

\* Lines 66-67: the button is rendered only when a table is loaded, and the
\* analysis starts only in the run its press started.
GateOffersButton == df # NoTable

\* Mutant of GateOpens: the press is honoured without a loaded table.
GateOpensWithoutTable == ButtonPressed("run_analysis")

GateOpens == GateOffersButton /\ ButtonPressed("run_analysis")

RunAnalysisGate ==
    /\ pc = "gate"
    /\ out' = IF GateOffersButton THEN Append(out, "button_run_analysis") ELSE out
    /\ pc' = IF GateOpens THEN "analyze" ELSE "idle"
    /\ UNCHANGED <<uploaded_file, default_exists, clicked, df, result_df,
                   sentiment_summary, analyzer_calls, fault>>

\* Line 69: the arguments of the call.
AnalyzerArguments == [df |-> df, text_column |-> TEXT_COLUMN]

\* Lines 68-69: the external analyzer returns None or a table, or raises
\* (a table without the text column, for one).
AnalyzeSentiment ==
    /\ pc = "analyze"
    /\ analyzer_calls' = Append(analyzer_calls, AnalyzerArguments)
    /\ \/ /\ \E r \in {ResultNone} \cup {ResultTable(t) : t \in ResultTables} :
                result_df' = r
          /\ out' = out \o <<"spinner", "analyze_sentiment_call",
                              "analyze_sentiment_return">>
          /\ pc' = "branch"
          /\ fault' = FALSE
       \/ /\ result_df' = Unbound
          /\ out' = out \o <<"spinner", "analyze_sentiment_call">>
          /\ pc' = "idle"
          /\ fault' = TRUE
    /\ UNCHANGED <<uploaded_file, default_exists, clicked, df, sentiment_summary>>

\* sent_df is None or sent_df.empty / result_df is not None and not empty.
IsEmptyResult(r) == r.kind = "none" \/ r.rows = <<>>

\* Lines 49-61: plot_confidence_histogram.
plot_confidence_histogram(sent_df) ==
    IF IsEmptyResult(sent_df)
    THEN <<"warning_no_histogram_data">>
    ELSE <<"pyplot_histogram">>

\* Mutant of HasResults: only None is tested, not emptiness.
HasResultsNotNone == result_df.kind # "none"

\* Line 71: the branch on the result.
HasResults == ~IsEmptyResult(result_df)

\* Lines 72-81: success message, histogram, pivot and its table.
RenderResults ==
    /\ pc = "branch"
    /\ HasResults
    /\ sentiment_summary' = Pivot(result_df.rows)
    /\ out' = out \o <<"success", "subheader_confidence">>
                  \o plot_confidence_histogram(result_df)
                  \o <<"subheader_summary", "dataframe_summary">>
    /\ pc' = "scores"
    /\ UNCHANGED <<uploaded_file, default_exists, clicked, df, result_df,
                   analyzer_calls, fault>>

\* Lines 84-90: the derived columns and the sort.
ComputeSentimentScores ==
    /\ pc = "scores"
    /\ \E presented \in Orderings(HasKey(WithScores(sentiment_summary))) :
          sentiment_summary' = SortValues(WithScores(sentiment_summary), presented)
    /\ out' = Append(out, "subheader_scores")
    /\ pc' = "plot"
    /\ UNCHANGED <<uploaded_file, default_exists, clicked, df, result_df,
                   analyzer_calls, fault>>

\* Lines 93-100: the bar chart.
PlotSentimentScores ==
    /\ pc = "plot"
    /\ out' = Append(out, "pyplot_barh")
    /\ pc' = "idle"
    /\ UNCHANGED <<uploaded_file, default_exists, clicked, df, result_df,
                   sentiment_summary, analyzer_calls, fault>>

\* Lines 101-102: nothing matched.
WarnNoResults ==
    /\ pc = "branch"
    /\ ~HasResults
    /\ out' = Append(out, "warning_no_clauses")
    /\ pc' = "idle"
    /\ UNCHANGED <<uploaded_file, default_exists, clicked, df, result_df,
                   sentiment_summary, analyzer_calls, fault>>

Next ==
    \/ \E f \in UploadFiles : UploadFile(f)
    \/ ClearUpload
    \/ ClickUseDefault
    \/ ClickRunAnalysis
    \/ CreateDefaultCsv
    \/ DeleteDefaultCsv
    \/ LoadCsv
    \/ RunAnalysisGate
    \/ AnalyzeSentiment
    \/ RenderResults
    \/ ComputeSentimentScores
    \/ PlotSentimentScores
    \/ WarnNoResults

Spec == Init /\ [][Next]_vars

\* ------------------------------------------------------------------ claims

\* The rows of the result table, and what they hold, counted directly.
Rows == result_df.rows

BucketsOf(rows) == {rows[i].bucket : i \in DOMAIN rows}

LabelsOf(rows) == {rows[i].label : i \in DOMAIN rows}

RowCount(rows, b, l) ==
    Cardinality({i \in DOMAIN rows : rows[i].bucket = b /\ rows[i].label = l})

\* Line 80 has run and lines 86-90 have not: the summary is the bare pivot.
PivotBuilt == pc = "scores"

\* Lines 86-90 have run in this run.
ScoresComputed == "subheader_scores" \in Range(out)

Score(b) == sentiment_summary.derived[b].sentiment_score

\* What the analysis branch (lines 71-102) can render.
AnalysisRenders ==
    {"success", "subheader_confidence", "pyplot_histogram",
     "warning_no_histogram_data", "subheader_summary", "dataframe_summary",
     "subheader_scores", "pyplot_barh", "warning_no_clauses"}

\* The analysis-branch renders of this run, in order.
RenderedByBranch == SelectSeq(out, LAMBDA e : e \in AnalysisRenders)

\* C1: the pivot of a non-empty result table has exactly one row per distinct
\* bucket and one column per distinct label, and cell (b, l) is the number of
\* result rows with bucket b and label l, 0 where there is none.
C1_PivotCountsRows ==
    PivotBuilt =>
        /\ Rows # <<>>
        /\ Range(sentiment_summary.index) = BucketsOf(Rows)
        /\ Len(sentiment_summary.index) = Cardinality(BucketsOf(Rows))
        /\ Range(sentiment_summary.columns) = LabelsOf(Rows)
        /\ Len(sentiment_summary.columns) = Cardinality(LabelsOf(Rows))
        /\ \A b \in BucketsOf(Rows) : \A l \in LabelsOf(Rows) :
              /\ sentiment_summary.counts[b][l] = RowCount(Rows, b, l)
              /\ (\A i \in DOMAIN Rows : ~(Rows[i].bucket = b /\ Rows[i].label = l))
                    => sentiment_summary.counts[b][l] = 0

\* A pivot with a repeated pair (a count of 2) and a pair that has no row.
C1_Witness ==
    /\ PivotBuilt
    /\ \E b \in BucketsOf(Rows) : \E l \in LabelsOf(Rows) :
          sentiment_summary.counts[b][l] = 2
    /\ \E b \in BucketsOf(Rows) : \E l \in LabelsOf(Rows) :
          RowCount(Rows, b, l) = 0

\* C2: once a table has been loaded, by upload or by the default button, a
\* press of 'Run Feature Specific Analysis' starts a run that invokes the
\* analyzer and ends with the results rendered or with the no-results warning.
C2_RunPressRunsAnalysis ==
    (Idle /\ clicked = "run_analysis" /\ ~fault) =>
        /\ Len(analyzer_calls) = 1
        /\ "success" \in Range(out) \/ "warning_no_clauses" \in Range(out)

\* C3: every bucket row of the computed summary has its sentiment_score
\* within [-1, 1], buckets with labels other than POSITIVE/NEGATIVE included.
C3_ScoreWithinBounds ==
    ScoresComputed =>
        \A b \in Range(sentiment_summary.index) :
            FloatLE(MinusOne, Score(b)) /\ FloatLE(Score(b), One)

\* C4: after the summary computation the rows are ascending by
\* sentiment_score (each row's score <= the next row's) and are the same
\* bucket rows as before the sort.
C4_SortedAscending ==
    ScoresComputed =>
        /\ \A i \in 1..(Len(sentiment_summary.index) - 1) :
              FloatLE(Score(sentiment_summary.index[i]),
                      Score(sentiment_summary.index[i + 1]))
        /\ Range(sentiment_summary.index) = BucketsOf(Rows)
        /\ Len(sentiment_summary.index) = Cardinality(BucketsOf(Rows))

\* C5: with no upload, 'Use default processed CSV' pressed and the default
\* file missing, the read fails, the run shows the error, has no table
\* loaded, raises no unhandled fault, does not offer the run button and does
\* not invoke the analyzer.
C5_MissingDefaultHandled ==
    /\ (pc = "gate" /\ uploaded_file = 0 /\ clicked = "use_default"
            /\ ~default_exists)
          => "FileNotFoundError" \in Range(out)
    /\ "FileNotFoundError" \in Range(out) =>
          /\ "error_default_not_found" \in Range(out)
          /\ df = NoTable
          /\ ~fault
          /\ "button_run_analysis" \notin Range(out)
          /\ analyzer_calls = <<>>
          /\ "analyze_sentiment_call" \notin Range(out)
          /\ pc \in {"gate", "idle"}

\* A finished run that pressed the default button and found no file.
C5_Witness ==
    /\ Idle
    /\ uploaded_file = 0
    /\ clicked = "use_default"
    /\ "FileNotFoundError" \in Range(out)
    /\ "error_default_not_found" \in Range(out)

\* C6: when the analyzer returns None or an empty table, the analysis branch
\* renders the 'no relevant clauses' warning and nothing else (no success
\* message, no histogram call, no table, no chart), and the summary is not
\* computed.
C6_EmptyResultOnlyWarns ==
    (result_df.kind = "none" \/ (result_df.kind = "table" /\ Len(Rows) = 0)) =>
        /\ pc \in {"branch", "idle"}
        /\ sentiment_summary = NoSummary
        /\ ~fault
        /\ RenderedByBranch =
              IF Idle THEN <<"warning_no_clauses">> ELSE <<>>

\* A finished run whose analyzer returned an empty table.
C6_Witness ==
    /\ Idle
    /\ result_df = ResultTable(<<>>)
    /\ RenderedByBranch = <<"warning_no_clauses">>

\* C7: for every bucket of the summary whose total is greater than 0,
\* positive_rate + negative_rate = 1 and the divisor is the number of
\* POSITIVE rows plus the number of NEGATIVE rows of the bucket, also when
\* only one of the two label columns exists in the pivot.
C7_RatesSumToOne ==
    ScoresComputed =>
        \A b \in Range(sentiment_summary.index) :
            LET d == sentiment_summary.derived[b]
            IN  /\ d.total = RowCount(Rows, b, "POSITIVE")
                                + RowCount(Rows, b, "NEGATIVE")
                /\ d.total > 0 =>
                      /\ FloatAdd(d.positive_rate, d.negative_rate) = One
                      /\ d.positive_rate = Rat(RowCount(Rows, b, "POSITIVE"), d.total)
                      /\ d.negative_rate = Rat(RowCount(Rows, b, "NEGATIVE"), d.total)

\* A summary without a NEGATIVE column, with another label in the bucket.
C7_Witness ==
    /\ ScoresComputed
    /\ "NEGATIVE" \notin Range(sentiment_summary.columns)
    /\ \E b \in Range(sentiment_summary.index) :
          /\ sentiment_summary.derived[b].total > 0
          /\ RowCount(Rows, b, "NEUTRAL") > 0

\* C8: a zero total is not guarded: a bucket of a non-empty result table
\* without POSITIVE and NEGATIVE rows is in the pivot, reaches the rate
\* computation with total = 0, gets NaN for positive_rate, negative_rate and
\* sentiment_score, and stays in the table that is sorted and plotted.
C8_ZeroTotalUnguarded ==
    /\ PivotBuilt => BucketsOf(Rows) \subseteq Range(sentiment_summary.index)
    /\ ScoresComputed =>
          /\ ~fault
          /\ pc \in {"plot", "idle"}
          /\ Idle => "pyplot_barh" \in Range(out)
          /\ \A b \in BucketsOf(Rows) :
                (RowCount(Rows, b, "POSITIVE") = 0 /\ RowCount(Rows, b, "NEGATIVE") = 0)
                    => /\ b \in Range(sentiment_summary.index)
                       /\ sentiment_summary.derived[b].total = 0
                       /\ IsNaN(sentiment_summary.derived[b].positive_rate)
                       /\ IsNaN(sentiment_summary.derived[b].negative_rate)
                       /\ IsNaN(Score(b))

\* A plotted summary with one bucket scored NaN beside one scored a number.
C8_Witness ==
    /\ Idle
    /\ "pyplot_barh" \in Range(out)
    /\ \E b, c \in Range(sentiment_summary.index) :
          /\ sentiment_summary.derived[b].total = 0
          /\ IsNaN(Score(b))
          /\ ~IsNaN(Score(c))

\* C9: in every run the analyzer is invoked at most once, only with a table
\* loaded and the run button read as pressed, with that table and the text
\* column 'cleaned_content'; every render of the analysis branch comes after
\* the call has returned; with no table loaded there is no call and no render
\* of the analysis branch.
C9_AnalyzerGated ==
    /\ Len(analyzer_calls) <= 1
    /\ Count(out, "analyze_sentiment_call") = Len(analyzer_calls)
    /\ analyzer_calls # <<>> =>
          /\ df # NoTable
          /\ clicked = "run_analysis"
          /\ "button_run_analysis" \in Range(out)
          /\ analyzer_calls[1].df = df
          /\ analyzer_calls[1].text_column = "cleaned_content"
    /\ \A i \in DOMAIN out :
          out[i] \in AnalysisRenders =>
              \E j \in 1..(i - 1) : out[j] = "analyze_sentiment_return"
    /\ df = NoTable => (analyzer_calls = <<>> /\ RenderedByBranch = <<>>)

\* A finished run that called the analyzer on the second uploaded file and
\* rendered the results.
C9_Witness ==
    /\ Idle
    /\ Len(analyzer_calls) = 1
    /\ df = UploadedTable(2)
    /\ "pyplot_barh" \in Range(out)

\* C10: in every run with an uploaded file present the loaded table is the
\* uploaded one, the default path is not read, the default button is not
\* evaluated and the 'please upload' message is not shown, whether or not the
\* default file exists.
C10_UploadTakesPrecedence ==
    (uploaded_file # 0 /\ pc # "load") =>
        /\ df = UploadedTable(uploaded_file)
        /\ "read_csv_uploaded" \in Range(out)
        /\ "read_csv_default" \notin Range(out)
        /\ "button_use_default" \notin Range(out)
        /\ "info_please_upload" \notin Range(out)

\* A finished run with an upload while the default file exists.
C10_Witness ==
    /\ Idle
    /\ uploaded_file # 0
    /\ default_exists
    /\ df = UploadedTable(uploaded_file)

====
